---------------------------- MODULE Spec2Model ----------------------------
(***************************************************************************)
(* A model of the substreams sink library: the reorg-tolerant block        *)
(* buffer (buffer.go) and the sinker's connect / dispatch loop             *)
(* (Sinker.run and Sinker.doRequest).                                      *)
(*                                                                         *)
(* Specifications:                                                         *)
(*   SpecBuffer  the buffer alone, driven by arbitrary calls of            *)
(*               HandleBlockScopedData and HandleBlockUndoSignal;          *)
(*   SpecOrder   the same calls, with the order of the heights recorded;   *)
(*   Spec        the sinker's Run, driven by a Substreams server that      *)
(*               follows the stream protocol, and by the user's handlers.  *)
(***************************************************************************)
EXTENDS Integers, Sequences, FiniteSets, TLC

\* ------------------------------------------------------------------------
\* Bounds of the model
\* ------------------------------------------------------------------------

\* Highest block height a message may carry.
MaxHeight == 3

\* Largest buffer capacity (undo buffer size) explored; the smallest is 1.
MaxBufferSize == 2

\* Block ids: two forks of the chain.
ForkIds == {"a", "b"}

VARIABLES
    buffer,     \* the blockDataBuffer: data, dataEmptyAt, lastEmittedBlock
    checker,    \* SpecLiveness: a DeltaLivenessChecker, its clock and its calls
    eval,       \* SpecCursor, SpecReadBlockRange: a call's arguments and result
    call,       \* the last call made on the buffer: which one, and its outcome
    order,      \* SpecOrder: the heights passed to and returned by the buffer so far
    sinker,     \* Spec: the Sinker's options and the state of its Run
    stats,      \* SpecStats: Stats.lastBlock, the dispatch loop and the ticker goroutine
    stream,     \* Spec: the server's side of the stream, and the Run's context
    user        \* Spec: what the user's handlers have been called with so far

vars == <<buffer, call, checker, eval, order, sinker, stats, stream, user>>

\* ------------------------------------------------------------------------
\* Values
\* ------------------------------------------------------------------------

\* bstream.BlockRef; lastEmittedBlock starts as the nil interface value.
NilRef == [isNil |-> TRUE, num |-> 0, id |-> ""]

NewBlockRef(id, num) == [isNil |-> FALSE, num |-> num, id |-> id]

BlockRefs == {NewBlockRef(id, num) : id \in ForkIds, num \in 1..MaxHeight}

EqualsBlockRefs(left, right) ==
    IF left.isNil \/ right.isNil
    THEN left.isNil /\ right.isNil
    ELSE left.num = right.num /\ left.id = right.id

\* The opaque cursor string a message carries: "" (blank), the opaque form
\* of a block reference, or a string that does not decode.
BlankOpaque == [kind |-> "", num |-> 0, id |-> ""]

BadOpaque == [kind |-> "bad", num |-> 0, id |-> ""]

ToOpaque(ref) == [kind |-> "opaque", num |-> ref.num, id |-> ref.id]

\* A *bstream.Range: nil, or the blocks from start up to end excluded, without
\* an end when it is not bounded.
NilRange == [isNil |-> TRUE, start |-> 0, bounded |-> FALSE, end |-> 0]

NewRangeExcludingEnd(startBlock, endBlock) ==
    [isNil |-> FALSE, start |-> startBlock, bounded |-> TRUE, end |-> endBlock]

NewOpenRange(startBlock) ==
    [isNil |-> FALSE, start |-> startBlock, bounded |-> FALSE, end |-> 0]

\* math.MaxUint64, the stop block of a request without an end: out of the
\* reach of any block of the model (the checker's largest integer).
MaxUint64 == 2147483647

\* A nil *BlockScopedData: what an unused slot of data holds.
NilBlock == [Number |-> 0, Id |-> "", FinalBlockHeight |-> 0, Cursor |-> BlankOpaque]

\* pbsubstreamsrpc.BlockScopedData: Clock.Number, Clock.Id, FinalBlockHeight, Cursor.
BlockScopedData(num, id, final, cursor) ==
    [Number |-> num, Id |-> id, FinalBlockHeight |-> final, Cursor |-> cursor]

blockToRef(blockScopedData) == NewBlockRef(blockScopedData.Id, blockScopedData.Number)

\* ------------------------------------------------------------------------
\* blockDataBuffer (buffer.go)
\* ------------------------------------------------------------------------

ErrNone == ""
ErrOrdering == "received new block scoped data whose height is lower or equal than our most recent block"
ErrUndoPastEmitted == "cannot undo down to last valid block because we already sent you a block which is after last valid block"
ErrIndexOutOfRange == "panic: index out of range"

newBlockDataBuffer(size) ==
    [data |-> [i \in 0..(size - 1) |-> NilBlock],
     dataEmptyAt |-> 0,
     lastEmittedBlock |-> NilRef]

Capacity(b) == Cardinality(DOMAIN b.data)

\* The blocks the buffer holds: data[0 .. dataEmptyAt-1], oldest first.
Held(b) == [i \in 1..b.dataEmptyAt |-> b.data[i - 1]]

RECURSIVE findOldestFinalLoop(_, _, _, _)
findOldestFinalLoop(b, finalHeight, i, oldestFinalBlockAt) ==
    IF i < b.dataEmptyAt
    THEN IF finalHeight < b.data[i].Number
         THEN oldestFinalBlockAt
         ELSE findOldestFinalLoop(b, finalHeight, i + 1, i)
    ELSE oldestFinalBlockAt

\* Faulty variant: the scan stops at a block whose height equals the final height.
findOldestFinalBlockIndex_Strict(b, finalHeight) ==
    findOldestFinalLoop(b, finalHeight - 1, 0, -1)

findOldestFinalBlockIndex(b, finalHeight) ==
    findOldestFinalLoop(b, finalHeight, 0, -1)

RECURSIVE findNewestValidLoop(_, _, _)
findNewestValidLoop(b, lastValidBlockHeight, i) ==
    IF i >= 0
    THEN IF b.data[i].Number <= lastValidBlockHeight
         THEN i
         ELSE findNewestValidLoop(b, lastValidBlockHeight, i - 1)
    ELSE -1

\* Faulty variant: the oldest valid block is taken instead of the newest.
findNewestValidBlockIndex_Oldest(b, lastValidBlockHeight) ==
    IF \E i \in 0..(b.dataEmptyAt - 1) : b.data[i].Number <= lastValidBlockHeight
    THEN 0
    ELSE -1

\* Faulty variant: the block right above the last valid height is taken as valid.
findNewestValidBlockIndex_KeepNext(b, lastValidBlockHeight) ==
    findNewestValidLoop(b, lastValidBlockHeight + 1, b.dataEmptyAt - 1)

findNewestValidBlockIndex(b, lastValidBlockHeight) ==
    findNewestValidLoop(b, lastValidBlockHeight, b.dataEmptyAt - 1)

\* Faulty variant: no ordering check is made.
orderingViolated_Never(b, blockData) == FALSE

\* Faulty variant: a block of the same height as the most recent one is accepted.
orderingViolated_AcceptsEqual(b, blockData) ==
    /\ b.dataEmptyAt # 0
    /\ blockData.Number < b.data[b.dataEmptyAt - 1].Number

\* The strict ordering check made on a non-empty buffer.
orderingViolated(b, blockData) ==
    /\ b.dataEmptyAt # 0
    /\ blockData.Number <= b.data[b.dataEmptyAt - 1].Number

\* Faulty variant: the buffer is taken as full one block too early.
isFullCapacity_Early(b) == b.dataEmptyAt + 1 >= Capacity(b)

\* Faulty variant: the buffer is taken as full one block too late.
isFullCapacity_Late(b) == b.dataEmptyAt > Capacity(b)

isFullCapacity(b) == b.dataEmptyAt = Capacity(b)

\* Faulty variant: a block at exactly the final height is not taken as final.
isReceivedBlockFinal_Strict(blockData) == blockData.Number < blockData.FinalBlockHeight

isReceivedBlockFinal(blockData) == blockData.Number <= blockData.FinalBlockHeight

\* Faulty variant: the blocks that stay are not moved.
shiftData_NoShift(b, finalBlockCount) == b.data

\* The loop that shifts the non-final blocks to the beginning of the array;
\* the slots it does not write keep what they held.
shiftData(b, finalBlockCount) ==
    [i \in DOMAIN b.data |->
        IF i + finalBlockCount < b.dataEmptyAt
        THEN b.data[i + finalBlockCount]
        ELSE b.data[i]]

\* The first half of HandleBlockScopedData: the blocks that leave the buffer.
\* Returns the buffer after the shift and the blocks copied out.
emitFinalBlocks(b, blockData) ==
    LET found == findOldestFinalBlockIndex(b, blockData.FinalBlockHeight)
        dataContainsFinalBlocks == found # -1
    IN  IF isFullCapacity(b) \/ dataContainsFinalBlocks
        THEN LET lastFinalBlockAt == IF found = -1 THEN 0 ELSE found
                 finalBlockCount == lastFinalBlockAt + 1
                 finalBlocks == [i \in 1..finalBlockCount |-> b.data[i - 1]]
             IN  [buffer |-> [data |-> shiftData(b, finalBlockCount),
                              dataEmptyAt |-> b.dataEmptyAt - finalBlockCount,
                              lastEmittedBlock |-> blockToRef(finalBlocks[Len(finalBlocks)])],
                  finalBlocks |-> finalBlocks]
        ELSE [buffer |-> b, finalBlocks |-> <<>>]

\* Faulty variant: a final received block is returned ahead of the buffered blocks.
placeReceivedBlock_First(b, finalBlocks, blockData) ==
    IF blockData.Number <= blockData.FinalBlockHeight
    THEN [buffer |-> b, finalBlocks |-> <<blockData>> \o finalBlocks,
          err |-> ErrNone, named |-> <<>>]
    ELSE IF b.dataEmptyAt \in DOMAIN b.data
         THEN [buffer |-> [b EXCEPT !.data[b.dataEmptyAt] = blockData,
                                    !.dataEmptyAt = b.dataEmptyAt + 1],
               finalBlocks |-> finalBlocks,
               err |-> ErrNone, named |-> <<>>]
         ELSE [buffer |-> b, finalBlocks |-> <<>>,
               err |-> ErrIndexOutOfRange, named |-> <<>>]

\* The second half: the received block is returned when final, stored otherwise.
\* A store at an index outside the array is Go's index-out-of-range panic.
placeReceivedBlock(b, finalBlocks, blockData) ==
    IF isReceivedBlockFinal(blockData)
    THEN [buffer |-> b, finalBlocks |-> Append(finalBlocks, blockData),
          err |-> ErrNone, named |-> <<>>]
    ELSE IF b.dataEmptyAt \in DOMAIN b.data
         THEN [buffer |-> [b EXCEPT !.data[b.dataEmptyAt] = blockData,
                                    !.dataEmptyAt = b.dataEmptyAt + 1],
               finalBlocks |-> finalBlocks,
               err |-> ErrNone, named |-> <<>>]
         ELSE [buffer |-> b, finalBlocks |-> <<>>,
               err |-> ErrIndexOutOfRange, named |-> <<>>]

HandleBlockScopedData(b, blockData) ==
    IF orderingViolated(b, blockData)
    THEN [buffer |-> b, finalBlocks |-> <<>>, err |-> ErrOrdering,
          named |-> <<blockToRef(blockData), blockToRef(b.data[b.dataEmptyAt - 1])>>]
    ELSE LET emitted == emitFinalBlocks(b, blockData)
         IN  placeReceivedBlock(emitted.buffer, emitted.finalBlocks, blockData)

\* Faulty variant: an undo down to the height of the last block sent is always accepted.
undoPastEmitted_Strict(b, lastValidBlock) ==
    /\ ~b.lastEmittedBlock.isNil
    /\ b.lastEmittedBlock.num > lastValidBlock.num
    /\ ~EqualsBlockRefs(b.lastEmittedBlock, lastValidBlock)

\* The check of the undo signal against the last block sent to the user.
undoPastEmitted(b, lastValidBlock) ==
    /\ ~b.lastEmittedBlock.isNil
    /\ b.lastEmittedBlock.num >= lastValidBlock.num
    /\ ~EqualsBlockRefs(b.lastEmittedBlock, lastValidBlock)

\* Faulty variant: each undo signal drops only the newest block above the last valid one.
HandleBlockUndoSignal_DropOne(b, lastValidBlock) ==
    IF /\ ~b.lastEmittedBlock.isNil
       /\ b.lastEmittedBlock.num >= lastValidBlock.num
       /\ ~EqualsBlockRefs(b.lastEmittedBlock, lastValidBlock)
    THEN [buffer |-> b, err |-> ErrUndoPastEmitted,
          named |-> <<lastValidBlock, b.lastEmittedBlock>>]
    ELSE IF b.dataEmptyAt = 0
         THEN [buffer |-> b, err |-> ErrNone, named |-> <<>>]
         ELSE IF b.data[b.dataEmptyAt - 1].Number > lastValidBlock.num
              THEN [buffer |-> [b EXCEPT !.dataEmptyAt = b.dataEmptyAt - 1],
                    err |-> ErrNone, named |-> <<>>]
              ELSE [buffer |-> b, err |-> ErrNone, named |-> <<>>]

HandleBlockUndoSignal(b, lastValidBlock) ==
    IF undoPastEmitted(b, lastValidBlock)
    THEN [buffer |-> b, err |-> ErrUndoPastEmitted,
          named |-> <<lastValidBlock, b.lastEmittedBlock>>]
    ELSE IF b.dataEmptyAt = 0
         THEN [buffer |-> b, err |-> ErrNone, named |-> <<>>]
         ELSE [buffer |-> [b EXCEPT !.dataEmptyAt =
                                findNewestValidBlockIndex(b, lastValidBlock.num) + 1],
               err |-> ErrNone, named |-> <<>>]

\* ------------------------------------------------------------------------
\* Cursors (types.go)
\* ------------------------------------------------------------------------

\* A Cursor: blank (the nil *Cursor), or bound to the block it points at.
blankCursor == [isBlank |-> TRUE, block |-> NilRef]

\* NewCursor: "" gives the blank cursor, an opaque string that does not decode
\* gives an error, any other gives the cursor bound to the block it encodes.
NewCursor(cursor) ==
    IF cursor = BlankOpaque
    THEN [cursor |-> blankCursor, err |-> FALSE]
    ELSE IF cursor.kind # "opaque"
         THEN [cursor |-> blankCursor, err |-> TRUE]
         ELSE [cursor |-> [isBlank |-> FALSE, block |-> NewBlockRef(cursor.id, cursor.num)],
               err |-> FALSE]

IsBlank(c) == c.isBlank

\* Cursor.String: the form sent in a request, "" for a blank cursor.
String(c) == IF IsBlank(c) THEN BlankOpaque ELSE ToOpaque(c.block)

\* bstream.Cursor.Equals on two bound cursors: the same content.
Equals(actual, candidate) == actual.block = candidate.block

\* Cursor.IsEqualTo.
IsEqualTo(c, other) ==
    IF IsBlank(c) /\ IsBlank(other) THEN TRUE
    ELSE IF ~IsBlank(c) \/ ~IsBlank(other) THEN FALSE
    ELSE Equals(c, other)

\* No call under observation.
NoEval == [op |-> "none"]

\* ------------------------------------------------------------------------
\* ReadBlockRange (sinker_viper.go)
\* ------------------------------------------------------------------------

\* Strings are sequences of characters, over the characters that matter to
\* the parser.
Digits == {"0", "1", "2", "3"}

Chars == Digits \cup {"+", "-", ":"}

\* Longest block range argument explored.
MaxInputLen == 5

Inputs == UNION {[1..n -> Chars] : n \in 0..MaxInputLen}

\* uint64(v) of an int64: a negative value wraps around below MaxUint64.
Uint64(v) == IF v < 0 THEN MaxUint64 + (v + 1) ELSE v

\* strings.Cut(input, ":").
Cut(input) ==
    IF \E i \in 1..Len(input) : input[i] = ":"
    THEN LET at == CHOOSE i \in 1..Len(input) :
                        /\ input[i] = ":"
                        /\ \A j \in 1..(i - 1) : input[j] # ":"
         IN  [before |-> SubSeq(input, 1, at - 1),
              after |-> SubSeq(input, at + 1, Len(input)),
              found |-> TRUE]
    ELSE [before |-> input, after |-> <<>>, found |-> FALSE]

HasPrefix(str, prefix) == str # <<>> /\ Head(str) = prefix

TrimPrefix(str, prefix) == IF HasPrefix(str, prefix) THEN Tail(str) ELSE str

DigitValue(ch) ==
    CASE ch = "0" -> 0 [] ch = "1" -> 1 [] ch = "2" -> 2 [] ch = "3" -> 3

RECURSIVE DigitsValue(_, _)
DigitsValue(digits, base) ==
    IF digits = <<>> THEN 0
    ELSE DigitsValue(SubSeq(digits, 1, Len(digits) - 1), base) * base
            + DigitValue(digits[Len(digits)])

\* strconv.ParseInt(str, 0, 64): an optional sign, then digits, read in base 8
\* after a leading 0 and in base 10 otherwise.
ParseInt(str) ==
    LET signed == HasPrefix(str, "+") \/ HasPrefix(str, "-")
        digits == IF signed THEN Tail(str) ELSE str
    IN  IF digits = <<>> \/ \E i \in 1..Len(digits) : digits[i] \notin Digits
        THEN [value |-> 0, err |-> TRUE]
        ELSE LET base == IF Len(digits) > 1 /\ digits[1] = "0" THEN 8 ELSE 10
                 value == DigitsValue(digits, base)
             IN  [value |-> IF HasPrefix(str, "-") THEN -value ELSE value,
                  err |-> FALSE]

parseNumber_EmptyIsZero(number) ==
    IF number = <<>>
    THEN [numberInt64 |-> 0, numberIsEmpty |-> FALSE, numberIsRelative |-> FALSE,
          err |-> FALSE]
    ELSE LET parsed == ParseInt(TrimPrefix(number, "+"))
         IN  [numberInt64 |-> parsed.value, numberIsEmpty |-> FALSE,
              numberIsRelative |-> HasPrefix(number, "+") /\ ~parsed.err,
              err |-> parsed.err]

parseNumber(number) ==
    IF number = <<>>
    THEN [numberInt64 |-> 0, numberIsEmpty |-> TRUE, numberIsRelative |-> FALSE,
          err |-> FALSE]
    ELSE LET parsed == ParseInt(TrimPrefix(number, "+"))
         IN  [numberInt64 |-> parsed.value, numberIsEmpty |-> FALSE,
              numberIsRelative |-> HasPrefix(number, "+") /\ ~parsed.err,
              err |-> parsed.err]

resolveBlockNumber_Absolute(value, defaultIfNegative, relative, against) ==
    IF value < 0 THEN defaultIfNegative ELSE value

resolveBlockNumber(value, defaultIfNegative, relative, against) ==
    IF ~relative
    THEN IF value < 0 THEN defaultIfNegative ELSE value
    ELSE against + value

singleStop_Inclusive(InitialBlock, stop) ==
    [range |-> NewRangeExcludingEnd(InitialBlock, stop + 1), err |-> "nil"]

\* ReadBlockRange on an input without ":", resolved to a stop block.
singleStop(InitialBlock, stop) ==
    [range |-> NewRangeExcludingEnd(InitialBlock, stop), err |-> "nil"]

\* ReadBlockRange(module, input), InitialBlock being module.InitialBlock.
ReadBlockRange(InitialBlock, input) ==
    LET cut == Cut(IF input = <<>> THEN <<":">> ELSE input)
        before == parseNumber(cut.before)
        beforeIsRelative == before.numberIsEmpty \/ before.numberIsRelative
        after == IF cut.found THEN parseNumber(cut.after)
                 ELSE [numberInt64 |-> 0, numberIsEmpty |-> FALSE,
                       numberIsRelative |-> FALSE, err |-> FALSE]
    IN  IF before.err THEN [range |-> NilRange, err |-> "parse number"]
        ELSE IF after.err THEN [range |-> NilRange, err |-> "parse number"]
        ELSE IF ~cut.found
        THEN IF before.numberInt64 < 1
             THEN [range |-> NewOpenRange(InitialBlock), err |-> "nil"]
             ELSE singleStop(InitialBlock,
                             Uint64(resolveBlockNumber(before.numberInt64, 0,
                                                       beforeIsRelative, InitialBlock)))
        ELSE LET start == resolveBlockNumber(before.numberInt64, InitialBlock,
                                             beforeIsRelative, InitialBlock)
                 startBlock == Uint64(start)
                 exclusiveEndBlock ==
                    Uint64(resolveBlockNumber(after.numberInt64, 0,
                                              after.numberIsRelative, start))
             IN  IF after.numberInt64 = -1
                 THEN [range |-> NewOpenRange(startBlock), err |-> "nil"]
                 ELSE IF after.numberIsEmpty
                 THEN [range |-> NewOpenRange(startBlock), err |-> "nil"]
                 ELSE IF startBlock >= exclusiveEndBlock
                 THEN [range |-> NilRange, err |-> "invalid range"]
                 ELSE [range |-> NewRangeExcludingEnd(startBlock, exclusiveEndBlock),
                       err |-> "nil"]

\* ------------------------------------------------------------------------
\* Errors (liveness_test.go, sinker)
\* ------------------------------------------------------------------------

\* An error value: what errors.Is finds at the bottom of its chain (kind),
\* whether errors.As finds a *RetryableError in the chain (retryable), and the
\* message of the outermost fmt.Errorf wrapping it (msg).
NewError(kind) == [kind |-> kind, retryable |-> FALSE, msg |-> ""]

NilError == NewError("nil")

ErrBackOffExpired ==
    [kind |-> "ErrBackOffExpired", retryable |-> FALSE,
     msg |-> "unable to complete work within backoff time limit"]

\* fmt.Errorf(msg + ": %w", err)
Errorf(msg, err) == [err EXCEPT !.msg = msg]

NewRetryableError(original) == [original EXCEPT !.retryable = TRUE]

retryable(err) == NewRetryableError(err)

\* Maximum number of retries of the back-off when retry is not infinite.
MaxRetries == 15

\* ------------------------------------------------------------------------
\* The Sinker and its options (sinker, sinker_options.go)
\* ------------------------------------------------------------------------

nilBuffer == [data |-> <<>>, dataEmptyAt |-> 0, lastEmittedBlock |-> NilRef]

NoHandlers == [HandleBlockScopedData |-> FALSE, HandleBlockUndoSignal |-> FALSE]

\* sink.New before any option: the options' fields at their zero value
\* (blockRange: the range to stream, nil when none was configured). The
\* fields of the Run follow: where it is (pc), the handlers it was given
\* (TRUE: non-nil), the active cursor, what the current doRequest has received,
\* the retries counted by the back-off, the error the last doRequest returned
\* (run's err, nil while a doRequest is running), and the error Run shut down
\* with.
New ==
    [hasBuffer |-> FALSE, infiniteRetry |-> FALSE, finalBlocksOnly |-> FALSE,
     blockRange |-> NilRange,
     pc |-> "new", handlers |-> NoHandlers, activeCursor |-> blankCursor,
     receivedMessage |-> FALSE, numTries |-> 0, requestErr |-> NilError,
     err |-> NilError, shutdownErr |-> NilError]

\* A Sinker with its buffer: s.buffer is b, nil when s.hasBuffer is FALSE.
WithBlockDataBuffer(s, b, bufferSize) ==
    IF bufferSize = 0
    THEN [sinker |-> [s EXCEPT !.hasBuffer = FALSE], buffer |-> nilBuffer]
    ELSE [sinker |-> [s EXCEPT !.hasBuffer = TRUE], buffer |-> newBlockDataBuffer(bufferSize)]

WithInfiniteRetry(s, b) ==
    [sinker |-> [s EXCEPT !.infiniteRetry = TRUE], buffer |-> b]

WithFinalBlocksOnly(s, b) ==
    [sinker |-> [s EXCEPT !.hasBuffer = FALSE, !.finalBlocksOnly = TRUE],
     buffer |-> nilBuffer]

WithBlockRange(s, b, blockRange) ==
    [sinker |-> [s EXCEPT !.blockRange = blockRange], buffer |-> b]

\* The options a Sinker may be built with, and their application in order.
Options ==
    {[name |-> "WithBlockDataBuffer", bufferSize |-> n, blockRange |-> NilRange] :
        n \in 0..MaxBufferSize}
        \cup {[name |-> "WithInfiniteRetry", bufferSize |-> 0, blockRange |-> NilRange],
              [name |-> "WithFinalBlocksOnly", bufferSize |-> 0, blockRange |-> NilRange]}

applyOption(sb, opt) ==
    IF opt.name = "WithBlockDataBuffer"
    THEN WithBlockDataBuffer(sb.sinker, sb.buffer, opt.bufferSize)
    ELSE IF opt.name = "WithInfiniteRetry"
         THEN WithInfiniteRetry(sb.sinker, sb.buffer)
         ELSE IF opt.name = "WithBlockRange"
              THEN WithBlockRange(sb.sinker, sb.buffer, opt.blockRange)
              ELSE WithFinalBlocksOnly(sb.sinker, sb.buffer)

RECURSIVE applyOptions(_, _)
applyOptions(sb, opts) ==
    IF opts = <<>> THEN sb ELSE applyOptions(applyOption(sb, Head(opts)), Tail(opts))

\* Longest list of options explored.
MaxOptions == 2

OptionLists == UNION {[1..n -> Options] : n \in 0..MaxOptions}

\* What the user's handlers have seen: the height of the last block passed to
\* handleBlockScopedData (0: none) and whether the heights passed have been
\* strictly increasing; the height of the last block the handler accepted
\* (returned nil for) and whether a block at or below it was passed again;
\* whether an undo signal was received, whether handleBlockUndoSignal was ever
\* called, and what was done with the last message dispatched: for a
\* BlockScopedData, the last block passed to the handler (handlerBlock), the
\* cursor its message carried (cursor), the cursor passed with it
\* (handlerCursor) and what the handler returned (handlerErr).
NoDispatch ==
    [message |-> "none", cursor |-> BlankOpaque, lastValidBlock |-> NilRef,
     handlerCalled |-> FALSE, handlerCursor |-> blankCursor,
     handlerBlock |-> NilRef, handlerErr |-> NilError, bufferErr |-> ErrNone]

NoUser ==
    [lastPassed |-> 0, passedIncreasing |-> TRUE,
     lastHandled |-> 0, handledAgain |-> FALSE,
     undoReceived |-> FALSE, undoHandlerCalled |-> FALSE,
     last |-> NoDispatch]

NoSinker == New

\* A *pbsubstreams.Clock: nil, or a clock whose timestamp may be missing.
NilClock == [isNil |-> TRUE, hasTimestamp |-> FALSE, timestamp |-> 0]

\* Latest time explored, for the now-provider and for the blocks' timestamps.
MaxTime == 3

\* Largest delta explored; the smallest is -1.
MaxDelta == 2

\* Most calls of IsLive and of the now-provider counted.
MaxCalls == 3

Clocks ==
    {NilClock, [isNil |-> FALSE, hasTimestamp |-> FALSE, timestamp |-> 0]}
        \cup {[isNil |-> FALSE, hasTimestamp |-> TRUE, timestamp |-> time] :
                time \in 0..MaxTime}

NewDeltaLivenessChecker(delta) == [delta |-> delta, isLive |-> FALSE]

IsLive_Strict(t, clock, nowTime) ==
    IF t.isLive THEN [t |-> t, result |-> TRUE, nowCalled |-> FALSE]
    ELSE IF clock.isNil \/ ~clock.hasTimestamp
         THEN [t |-> t, result |-> FALSE, nowCalled |-> FALSE]
         ELSE LET live == nowTime - clock.timestamp < t.delta
              IN  [t |-> [t EXCEPT !.isLive = live], result |-> live, nowCalled |-> TRUE]

IsLive_Rechecks(t, clock, nowTime) ==
    IF clock.isNil \/ ~clock.hasTimestamp
    THEN [t |-> t, result |-> FALSE, nowCalled |-> FALSE]
    ELSE LET live == nowTime - clock.timestamp <= t.delta
         IN  [t |-> [t EXCEPT !.isLive = live], result |-> live, nowCalled |-> TRUE]

\* DeltaLivenessChecker.IsLive, nowTime being what the now-provider answers if
\* it is asked: the checker afterwards, the result, and whether the
\* now-provider was called.
IsLive(t, clock, nowTime) ==
    IF t.isLive THEN [t |-> t, result |-> TRUE, nowCalled |-> FALSE]
    ELSE IF clock.isNil THEN [t |-> t, result |-> FALSE, nowCalled |-> FALSE]
    ELSE IF ~clock.hasTimestamp THEN [t |-> t, result |-> FALSE, nowCalled |-> FALSE]
    ELSE LET live == nowTime - clock.timestamp <= t.delta
         IN  [t |-> IF live THEN [t EXCEPT !.isLive = TRUE] ELSE t,
              result |-> IF live THEN TRUE ELSE t.isLive,
              nowCalled |-> TRUE]

\* The checker under observation: the DeltaLivenessChecker, the time the
\* now-provider would answer, the calls of IsLive and of the now-provider so
\* far, whether IsLive has returned true, and the last call's clock and result.
NoChecker ==
    [t |-> NewDeltaLivenessChecker(0), now |-> 0, calls |-> 0, nowCalls |-> 0,
     returnedTrue |-> FALSE, clock |-> NilClock, result |-> FALSE]

\* An interface value holding a bstream.BlockRef: the word naming its type and
\* the word pointing at its data. newStats stores an unsetBlockRef{}.
unsetBlockRef == [tab |-> "unsetBlockRef", data |-> NilRef]

BasicBlockRef(ref) == [tab |-> "BasicBlockRef", data |-> ref]

\* Stats as newStats builds it, the dispatch loop outside of RecordBlock (loop:
\* "idle", or "storing" with the block being stored), the ticker goroutine
\* outside of LogNow (ticker: "idle", or "loading" with the word loaded), and
\* the last value logged.
NoStats ==
    [lastBlock |-> unsetBlockRef,
     loop |-> "idle", storing |-> unsetBlockRef,
     ticker |-> "idle", loadedTab |-> "",
     logged |-> unsetBlockRef]

NoStream == [head |-> 0, final |-> 0, stop |-> MaxUint64, ctxDone |-> FALSE]

\* ------------------------------------------------------------------------
\* The buffer under arbitrary calls: SpecBuffer, SpecOrder
\* ------------------------------------------------------------------------

\* The blocks and the undo signals a caller may pass.
Blocks ==
    {BlockScopedData(num, id, final, BlankOpaque) :
        num \in 1..MaxHeight, id \in ForkIds, final \in 0..MaxHeight}

Range(s) == {s[i] : i \in DOMAIN s}

Heights(blocks) == [i \in DOMAIN blocks |-> blocks[i].Number]

IsStrictlyIncreasing(s) == \A i \in 1..(Len(s) - 1) : s[i] < s[i + 1]

NoCall == [op |-> "none", err |-> ErrNone, returned |-> 0, dropped |-> 0]

\* order: the height of the last block returned (0: none yet), whether every
\* block passed so far was higher than every block returned before it, whether
\* the heights returned have been strictly increasing so far, and whether
\* every call so far returned without error.
NoOrder ==
    [lastReturned |-> 0, receivedAboveReturned |-> TRUE,
     returnedIncreasing |-> TRUE, allOk |-> TRUE]

OrderAfterData(o, blockData, r) ==
    LET heights == Heights(r.finalBlocks)
        joined == IF o.lastReturned = 0 THEN heights ELSE <<o.lastReturned>> \o heights
    IN  [receivedAboveReturned |->
             o.receivedAboveReturned /\ o.lastReturned < blockData.Number,
         lastReturned |-> IF heights = <<>> THEN o.lastReturned ELSE heights[Len(heights)],
         returnedIncreasing |-> o.returnedIncreasing /\ IsStrictlyIncreasing(joined),
         allOk |-> o.allOk /\ r.err = ErrNone]

OrderAfterUndo(o, r) == [o EXCEPT !.allOk = o.allOk /\ r.err = ErrNone]

InitBuffer ==
    /\ \E size \in 1..MaxBufferSize : buffer = newBlockDataBuffer(size)
    /\ call = NoCall
    /\ checker = NoChecker
    /\ eval = NoEval
    /\ order = NoOrder
    /\ sinker = NoSinker
    /\ stats = NoStats
    /\ stream = NoStream
    /\ user = NoUser

\* One call of HandleBlockScopedData on the buffer, r being what it returns.
BufferData(r) ==
    /\ UNCHANGED <<checker, eval, sinker, stats, stream, user>>
    /\ buffer' = r.buffer
    /\ call' = [op |-> "data", err |-> r.err,
                returned |-> Len(r.finalBlocks), dropped |-> 0]

\* One call of HandleBlockUndoSignal on the buffer, r being what it returns.
BufferUndo(r) ==
    /\ UNCHANGED <<checker, eval, sinker, stats, stream, user>>
    /\ buffer' = r.buffer
    /\ call' = [op |-> "undo", err |-> r.err, returned |-> 0,
                dropped |-> buffer.dataEmptyAt - r.buffer.dataEmptyAt]

CallHandleBlockScopedData ==
    \E blockData \in Blocks :
        \E r \in {HandleBlockScopedData(buffer, blockData)} :
            /\ BufferData(r)
            /\ UNCHANGED order

CallHandleBlockUndoSignal ==
    \E lastValidBlock \in BlockRefs :
        \E r \in {HandleBlockUndoSignal(buffer, lastValidBlock)} :
            /\ BufferUndo(r)
            /\ UNCHANGED order

NextBuffer == CallHandleBlockScopedData \/ CallHandleBlockUndoSignal

SpecBuffer == InitBuffer /\ [][NextBuffer]_vars

\* SpecOrder: the same calls, recording the order of the heights passed and
\* returned. It follows the runs in which every block passed is higher than
\* the blocks already returned, up to and including the first call that is not.
OrderHandleBlockScopedData ==
    /\ order.receivedAboveReturned
    /\ \E blockData \in Blocks :
        \E r \in {HandleBlockScopedData(buffer, blockData)} :
            /\ BufferData(r)
            /\ order' = OrderAfterData(order, blockData, r)

OrderHandleBlockUndoSignal ==
    /\ order.receivedAboveReturned
    /\ \E lastValidBlock \in BlockRefs :
        \E r \in {HandleBlockUndoSignal(buffer, lastValidBlock)} :
            /\ BufferUndo(r)
            /\ order' = OrderAfterUndo(order, r)

NextOrder == OrderHandleBlockScopedData \/ OrderHandleBlockUndoSignal

SpecOrder == InitBuffer /\ [][NextOrder]_vars

\* ------------------------------------------------------------------------
\* Sinker.run and Sinker.doRequest
\* ------------------------------------------------------------------------

\* Run's shutdown: the error is dropped when the context is canceled.
Shutdown(s, err, ctxDone) ==
    [s EXCEPT !.pc = "terminated", !.err = err,
              !.shutdownErr = IF ctxDone THEN NilError ELSE err]

\* Faulty variant: one retry more is granted before the back-off stops.
NextBackOff_OneMore(s, ctxDone, elapsed) ==
    IF ctxDone
    THEN [stop |-> TRUE, numTries |-> s.numTries]
    ELSE IF ~s.infiniteRetry
         THEN IF s.numTries > MaxRetries
              THEN [stop |-> TRUE, numTries |-> s.numTries]
              ELSE [stop |-> elapsed, numTries |-> s.numTries + 1]
         ELSE [stop |-> elapsed, numTries |-> s.numTries]

\* Faulty variant: at the limit the count of retries starts over instead of
\* stopping the back-off.
NextBackOff_StartsOver(s, ctxDone, elapsed) ==
    IF ctxDone
    THEN [stop |-> TRUE, numTries |-> s.numTries]
    ELSE IF ~s.infiniteRetry
         THEN IF s.numTries >= MaxRetries
              THEN [stop |-> elapsed, numTries |-> 0]
              ELSE [stop |-> elapsed, numTries |-> s.numTries + 1]
         ELSE [stop |-> elapsed, numTries |-> s.numTries]

\* backOff.NextBackOff(): Stop once the context is done or, unless retry is
\* infinite, once MaxRetries retries were made since the last Reset; else the
\* exponential back-off is asked, which stops when its maximum elapsed time has
\* passed since the last Reset (elapsed).
NextBackOff(s, ctxDone, elapsed) ==
    IF ctxDone
    THEN [stop |-> TRUE, numTries |-> s.numTries]
    ELSE IF ~s.infiniteRetry
         THEN IF s.numTries >= MaxRetries
              THEN [stop |-> TRUE, numTries |-> s.numTries]
              ELSE [stop |-> elapsed, numTries |-> s.numTries + 1]
         ELSE [stop |-> elapsed, numTries |-> s.numTries]

\* dgrpc.IsGRPCErrorCode(err, codes.Canceled): the error carries a canceled
\* status of the transport.
IsGRPCErrorCode(err) == err.kind = "grpc.Canceled"

\* Faulty variant: the back-off is never reset.
backOffReset_Never(s) == s

\* "If we received at least one message, we must reset the backoff".
backOffReset(s) == IF s.receivedMessage THEN [s EXCEPT !.numTries = 0] ELSE s

\* Faulty variant: the end of the stream is not told from other errors.
isEOF_Never(err) == FALSE

\* errors.Is(err, io.EOF)
isEOF(err) == err.kind = "io.EOF"

\* Faulty variant: no error is taken for a cancellation.
isCanceled_Never(err) == FALSE

\* "A context canceled is never retryable".
isCanceled(err) == err.kind = "context.Canceled" \/ IsGRPCErrorCode(err)

\* Faulty variant: no error is found retryable.
isRetryable_Never(err) == FALSE

\* errors.As(err, &retryableError): a *RetryableError is found in the chain.
isRetryable(err) == err.retryable

\* What run does with the error doRequest returned. elapsed: whether the
\* back-off's maximum elapsed time has passed since it was created or last
\* reset, which a reset made just now excludes.
runAfterRequest(s, err, ctxDone, elapsed) ==
    LET returned == [s EXCEPT !.requestErr = err]
        reset == backOffReset(returned)
    IN  IF isEOF(err)
        THEN Shutdown(reset, NilError, ctxDone)
        ELSE IF isCanceled(err)
             THEN Shutdown(reset, err, ctxDone)
             ELSE IF isRetryable(err)
                  THEN LET sleepFor == NextBackOff(reset, ctxDone,
                                                   elapsed /\ ~s.receivedMessage)
                       IN  IF sleepFor.stop
                           THEN Shutdown([reset EXCEPT !.numTries = sleepFor.numTries],
                                         ErrBackOffExpired, ctxDone)
                           ELSE [reset EXCEPT !.numTries = sleepFor.numTries,
                                              !.pc = "connecting"]
                  ELSE Shutdown(reset, err, ctxDone)

ErrInvalidCursor ==
    Errorf("invalid received cursor, 'bstream' library in here is probably not up to date",
           NewError("decode"))

\* Whether a BlockScopedData goes to the handler without buffering.
dataBypassesBuffer(s) == ~s.hasBuffer

\* The first half of the BlockScopedData case: the blocks to process.
bufferBlockScopedData(s, b, blockData) ==
    IF dataBypassesBuffer(s)
    THEN [activeCursor |-> s.activeCursor, buffer |-> b,
          dataToProcess |-> <<blockData>>, err |-> NilError]
    ELSE LET decoded == NewCursor(blockData.Cursor)
         IN  IF decoded.err
             THEN [activeCursor |-> s.activeCursor, buffer |-> b,
                   dataToProcess |-> <<>>, err |-> ErrInvalidCursor]
             ELSE LET r == HandleBlockScopedData(b, blockData)
                  IN  IF r.err # ErrNone
                      THEN [activeCursor |-> decoded.cursor, buffer |-> r.buffer,
                            dataToProcess |-> <<>>,
                            err |-> Errorf("buffer add block data", NewError(r.err))]
                      ELSE [activeCursor |-> decoded.cursor, buffer |-> r.buffer,
                            dataToProcess |-> r.finalBlocks, err |-> NilError]

\* Faulty variant: the handler is given a blank cursor.
currentCursor_Blank(blockScopedData) == [cursor |-> blankCursor, err |-> FALSE]

\* The cursor the handler is given with a block: the one its message carries.
currentCursor(blockScopedData) == NewCursor(blockScopedData.Cursor)

\* The second half: the handler called on each block in order; it returns
\* failure at the failAt-th block (0: at none). passed: the blocks it was
\* called with, cursors: the cursor it was given with each, handled: the
\* blocks it returned nil for, failure: what its last call returned.
processBlockScopedData(dataToProcess, failAt, failure) ==
    LET n == Len(dataToProcess)
        bad == {i \in 1..n : currentCursor(dataToProcess[i]).err}
        firstBad == IF bad = {} THEN n + 1
                    ELSE CHOOSE i \in bad : \A j \in bad : i <= j
        cursors(k) == [i \in 1..k |-> currentCursor(dataToProcess[i]).cursor]
    IN  IF firstBad <= n /\ (failAt = 0 \/ firstBad <= failAt)
        THEN [passed |-> SubSeq(dataToProcess, 1, firstBad - 1),
              cursors |-> cursors(firstBad - 1),
              handled |-> SubSeq(dataToProcess, 1, firstBad - 1),
              failure |-> NilError,
              err |-> ErrInvalidCursor]
        ELSE IF failAt \in 1..n
             THEN [passed |-> SubSeq(dataToProcess, 1, failAt),
                   cursors |-> cursors(failAt),
                   handled |-> SubSeq(dataToProcess, 1, failAt - 1),
                   failure |-> failure,
                   err |-> Errorf("handle BlockScopedData message", failure)]
             ELSE [passed |-> dataToProcess, cursors |-> cursors(n),
                   handled |-> dataToProcess, failure |-> NilError,
                   err |-> NilError]

\* Faulty variant: every BlockUndoSignal goes to the user's handler.
undoGoesToHandler_Always(s) == TRUE

\* Whether a BlockUndoSignal goes to the user's handler.
undoGoesToHandler(s) == ~s.hasBuffer

\* The BlockUndoSignal case; failure: what the user's handler returns if called.
dispatchBlockUndoSignal(s, b, undoSignal, failure) ==
    LET decoded == NewCursor(undoSignal.LastValidCursor)
    IN  IF decoded.err
        THEN [activeCursor |-> s.activeCursor, buffer |-> b, err |-> ErrInvalidCursor,
              handlerCalled |-> FALSE, bufferErr |-> ErrNone]
        ELSE IF undoGoesToHandler(s)
             THEN [activeCursor |-> decoded.cursor, buffer |-> b,
                   err |-> IF failure = NilError THEN NilError
                           ELSE Errorf("handle BlockUndoSignal", failure),
                   handlerCalled |-> TRUE, bufferErr |-> ErrNone]
             ELSE LET r == HandleBlockUndoSignal(b, undoSignal.LastValidBlock)
                  IN  [activeCursor |-> decoded.cursor, buffer |-> r.buffer,
                       err |-> IF r.err = ErrNone THEN NilError
                               ELSE Errorf("buffer undo block", NewError(r.err)),
                       handlerCalled |-> FALSE, bufferErr |-> r.err]

\* ------------------------------------------------------------------------
\* Spec: the Sinker's Run against a server and the user's handlers
\* ------------------------------------------------------------------------

\* The cursors a Run may be started with.
StartCursors == {blankCursor, [isBlank |-> FALSE, block |-> NewBlockRef("a", 1)]}

\* What a handler may return when it fails: a plain error, or one it wrapped
\* as retryable.
HandlerErrors == {NewError("user"), NewRetryableError(NewError("user"))}

\* Faulty variant: the undo handler is required whatever the blocks requested.
undoHandlerRequired_Always(s) == TRUE

\* Whether run requires handlers.HandleBlockUndoSignal to be set.
undoHandlerRequired(s) == ~s.finalBlocksOnly

\* The checks and the set-up run makes before its loop.
run(s, cursor, handlers, clientFails) ==
    IF ~handlers.HandleBlockScopedData
    THEN Shutdown([s EXCEPT !.handlers = handlers],
                  [NewError("config") EXCEPT !.msg = "block scope data hanlder not set"],
                  FALSE)
    ELSE IF undoHandlerRequired(s) /\ ~handlers.HandleBlockUndoSignal
         THEN Shutdown([s EXCEPT !.handlers = handlers],
                       [NewError("config") EXCEPT !.msg =
                           "requesting non-final block and block undo signal handler is not set"],
                       FALSE)
         ELSE IF clientFails
              THEN Shutdown([s EXCEPT !.handlers = handlers, !.activeCursor = cursor],
                            Errorf("new substreams client", NewError("client")), FALSE)
              ELSE [s EXCEPT !.handlers = handlers, !.activeCursor = cursor,
                             !.numTries = 0, !.pc = "connecting"]

\* The messages the server may send next (the stream protocol): a block above
\* the last one sent, on any fork, declaring a final height not below the one
\* declared before (and not below the block itself when only final blocks were
\* requested), below the stop block of the request, with the block's cursor
\* or one that does not decode.
ServerBlocks(finalBlocksOnly) ==
    LET sendable ==
            {BlockScopedData(num, id, final, BadOpaque) :
                num \in (stream.head + 1)..MaxHeight, id \in ForkIds,
                final \in stream.final..MaxHeight}
            \cup
            {BlockScopedData(num, id, final, ToOpaque(NewBlockRef(id, num))) :
                num \in (stream.head + 1)..MaxHeight, id \in ForkIds,
                final \in stream.final..MaxHeight}
    IN  {blockData \in sendable :
            /\ blockData.Number < stream.stop
            /\ finalBlocksOnly => blockData.Number <= blockData.FinalBlockHeight}

\* An undo signal: down to a block below the last one sent and not below the
\* final height, never sent when only final blocks were requested.
ServerUndoSignals ==
    {[LastValidBlock |-> L, LastValidCursor |-> cursor] :
        L \in {x \in BlockRefs : x.num < stream.head /\ x.num >= stream.final},
        cursor \in {BadOpaque}}
    \cup
    {[LastValidBlock |-> L, LastValidCursor |-> ToOpaque(L)] :
        L \in {x \in BlockRefs : x.num < stream.head /\ x.num >= stream.final}}

\* The server opens a stream at the block of the request's start cursor, at
\* the request's start block when the cursor is blank, and sends no block at
\* or above the request's stop block.
ServerOpen(req) ==
    [stream EXCEPT !.head = IF req.StartCursor = BlankOpaque
                            THEN IF req.StartBlockNum = 0 THEN 0
                                 ELSE req.StartBlockNum - 1
                            ELSE req.StartCursor.num,
                   !.stop = req.StopBlockNum]

adjustStreamRange_Unadjusted(s, b) == s.blockRange

\* The range to request: the configured range, its end pushed back by the
\* buffer's capacity when there is a buffer and the range has an end.
adjustStreamRange(s, b) ==
    IF ~s.hasBuffer THEN s.blockRange
    ELSE IF ~s.blockRange.isNil /\ s.blockRange.bounded
         THEN NewRangeExcludingEnd(s.blockRange.start, s.blockRange.end + Capacity(b))
         ELSE s.blockRange

\* The request run sends on each attempt: the adjusted range's start (0
\* without a range), its end (MaxUint64 without one) and the active cursor.
NewRequest(s, b) ==
    LET adjustedRange == adjustStreamRange(s, b)
    IN  [StartBlockNum |-> IF ~adjustedRange.isNil THEN adjustedRange.start ELSE 0,
         StopBlockNum |-> IF ~adjustedRange.isNil /\ adjustedRange.bounded
                          THEN adjustedRange.end ELSE MaxUint64,
         StartCursor |-> String(s.activeCursor),
         FinalBlocksOnly |-> s.finalBlocksOnly]

UserAfterData(u, processed) ==
    LET passed == processed.passed
        handled == processed.handled
        n == Len(passed)
        heights == Heights(passed)
        joined == IF u.lastPassed = 0 THEN heights ELSE <<u.lastPassed>> \o heights
        before(i) == IF i = 1 THEN u.lastHandled ELSE passed[i - 1].Number
    IN  [u EXCEPT
            !.lastPassed = IF passed = <<>> THEN u.lastPassed ELSE heights[Len(heights)],
            !.passedIncreasing = u.passedIncreasing /\ IsStrictlyIncreasing(joined),
            !.lastHandled = IF handled = <<>> THEN u.lastHandled
                            ELSE handled[Len(handled)].Number,
            !.handledAgain = \/ u.handledAgain
                             \/ /\ ~u.undoReceived
                                /\ \E i \in 1..Len(passed) : passed[i].Number <= before(i),
            !.last = IF passed = <<>>
                     THEN [NoDispatch EXCEPT !.message = "data"]
                     ELSE [NoDispatch EXCEPT !.message = "data",
                                             !.cursor = passed[n].Cursor,
                                             !.handlerCalled = TRUE,
                                             !.handlerCursor = processed.cursors[n],
                                             !.handlerBlock = blockToRef(passed[n]),
                                             !.handlerErr = processed.failure]]

UserAfterUndo(u, undoSignal, d, failure) ==
    [u EXCEPT
        !.undoReceived = TRUE,
        !.undoHandlerCalled = u.undoHandlerCalled \/ d.handlerCalled,
        !.last = [message |-> "undo", cursor |-> undoSignal.LastValidCursor,
                  lastValidBlock |-> undoSignal.LastValidBlock,
                  handlerCalled |-> d.handlerCalled,
                  handlerCursor |-> IF d.handlerCalled THEN d.activeCursor ELSE blankCursor,
                  handlerBlock |-> IF d.handlerCalled THEN undoSignal.LastValidBlock ELSE NilRef,
                  handlerErr |-> IF d.handlerCalled THEN failure ELSE NilError,
                  bufferErr |-> d.bufferErr]]

Init ==
    /\ \E opts \in OptionLists :
        LET built == applyOptions([sinker |-> New, buffer |-> nilBuffer], opts)
        IN  /\ sinker = built.sinker
            /\ buffer = built.buffer
    /\ call = NoCall
    /\ checker = NoChecker
    /\ eval = NoEval
    /\ order = NoOrder
    /\ stats = NoStats
    /\ stream = NoStream
    /\ user = NoUser

\* Run is called: run's checks, then the first connection is due.
Run ==
    /\ sinker.pc = "new"
    /\ \E cursor \in StartCursors,
          handlers \in [HandleBlockScopedData : BOOLEAN, HandleBlockUndoSignal : BOOLEAN],
          clientFails \in BOOLEAN :
        sinker' = run(sinker, cursor, handlers, clientFails)
    /\ UNCHANGED <<buffer, call, checker, eval, order, stats, stream, user>>

\* doRequest opens the stream with the active cursor.
StreamOpens ==
    /\ sinker.pc = "connecting"
    /\ ~stream.ctxDone
    /\ sinker' = [sinker EXCEPT !.pc = "receiving", !.receivedMessage = FALSE,
                                !.requestErr = NilError]
    /\ stream' = ServerOpen(NewRequest(sinker, buffer))
    /\ UNCHANGED <<buffer, call, checker, eval, order, stats, user>>

\* doRequest fails to open the stream: always wrapped as retryable.
StreamOpenFails ==
    /\ sinker.pc = "connecting"
    /\ \E elapsed \in BOOLEAN :
        LET cause == NewError(IF stream.ctxDone THEN "grpc.Canceled" ELSE "grpc.Unavailable")
            err == retryable(Errorf("call sf.substreams.rpc.v2.Stream/Blocks", cause))
        IN  sinker' = runAfterRequest([sinker EXCEPT !.receivedMessage = FALSE],
                                      err, stream.ctxDone, elapsed)
    /\ UNCHANGED <<buffer, call, checker, eval, order, stats, stream, user>>

\* The errors stream.Recv() may return: the end of the stream, a canceled
\* status, any other failure of the transport, and the context's own error
\* once it is canceled.
RecvErrors(ctxDone) ==
    IF ctxDone THEN {"grpc.Canceled", "context.Canceled"}
    ELSE {"io.EOF", "grpc.Canceled", "grpc.Unavailable"}

\* Faulty variant: every error of stream.Recv() is returned as retryable.
recvError_AllRetryable(kind) ==
    retryable(Errorf("receive stream next message", NewError(kind)))

\* What doRequest returns for an error of stream.Recv(): io.EOF as it is, a
\* canceled status wrapped as retryable, any other error wrapped only.
recvError(kind) ==
    LET wrapped == Errorf("receive stream next message", NewError(kind))
    IN  IF kind = "io.EOF" THEN NewError(kind)
        ELSE IF kind = "grpc.Canceled" THEN retryable(wrapped)
        ELSE wrapped

\* stream.Recv() returns an error.
RecvError ==
    /\ sinker.pc = "receiving"
    /\ \E kind \in RecvErrors(stream.ctxDone), elapsed \in BOOLEAN :
        sinker' = runAfterRequest(sinker, recvError(kind), stream.ctxDone, elapsed)
    /\ UNCHANGED <<buffer, call, checker, eval, order, stats, stream, user>>

receivedProgress_Reset(s) == [s EXCEPT !.receivedMessage = TRUE, !.numTries = 0]

\* doRequest on a Progress message: the message is counted as received, the
\* rest is metrics and logs.
receivedProgress(s) == [s EXCEPT !.receivedMessage = TRUE]

\* A Progress, Session, debug snapshot or unknown message is received.
RecvOther ==
    /\ sinker.pc = "receiving"
    /\ ~stream.ctxDone
    /\ sinker' = receivedProgress(sinker)
    /\ UNCHANGED <<buffer, call, checker, eval, order, stats, stream, user>>

\* A BlockScopedData is received and dispatched.
RecvBlockScopedData ==
    /\ sinker.pc = "receiving"
    /\ ~stream.ctxDone
    /\ \E blockData \in ServerBlocks(sinker.finalBlocksOnly) :
        /\ \E first \in {bufferBlockScopedData(sinker, buffer, blockData)} :
            \E failAt \in 0..Len(first.dataToProcess), failure \in HandlerErrors :
                /\ failAt = 0 => failure = NewError("user")
                /\ LET second == IF first.err = NilError
                                 THEN processBlockScopedData(first.dataToProcess, failAt, failure)
                                 ELSE [passed |-> <<>>, cursors |-> <<>>, handled |-> <<>>,
                                       failure |-> NilError, err |-> first.err]
                       received == [sinker EXCEPT !.receivedMessage = TRUE,
                                                  !.activeCursor = first.activeCursor]
                   IN  /\ sinker' = IF second.err = NilError THEN received
                                    ELSE runAfterRequest(received, second.err, FALSE, FALSE)
                       /\ buffer' = first.buffer
                       /\ user' = UserAfterData(user, second)
        /\ stream' = [stream EXCEPT !.head = blockData.Number,
                                    !.final = blockData.FinalBlockHeight]
    /\ UNCHANGED <<call, checker, eval, order, stats>>

\* A BlockUndoSignal is received and dispatched.
RecvBlockUndoSignal ==
    /\ sinker.pc = "receiving"
    /\ ~stream.ctxDone
    /\ ~sinker.finalBlocksOnly
    /\ \E undoSignal \in ServerUndoSignals, failure \in {NilError} \cup HandlerErrors :
        \E d \in {dispatchBlockUndoSignal(sinker, buffer, undoSignal, failure)} :
            /\ ~d.handlerCalled => failure = NilError
            /\ LET received == [sinker EXCEPT !.receivedMessage = TRUE,
                                              !.activeCursor = d.activeCursor]
               IN  sinker' = IF d.err = NilError THEN received
                             ELSE runAfterRequest(received, d.err, FALSE, FALSE)
            /\ buffer' = d.buffer
            /\ user' = UserAfterUndo(user, undoSignal, d, failure)
            /\ stream' = [stream EXCEPT !.head = undoSignal.LastValidBlock.num]
    /\ UNCHANGED <<call, checker, eval, order, stats>>

\* The caller cancels the context of the Run.
CancelContext ==
    /\ sinker.pc \in {"connecting", "receiving"}
    /\ ~stream.ctxDone
    /\ stream' = [stream EXCEPT !.ctxDone = TRUE]
    /\ UNCHANGED <<buffer, call, checker, eval, order, sinker, stats, user>>

Next ==
    \/ Run
    \/ StreamOpens
    \/ StreamOpenFails
    \/ RecvError
    \/ RecvOther
    \/ RecvBlockScopedData
    \/ RecvBlockUndoSignal
    \/ CancelContext

Spec == Init /\ [][Next]_vars

\* A Run with finite retry against a server that never delivers a message:
\* streams open or fail to open, and stream.Recv() returns errors only. run is
\* sequential code, so each of its steps is taken once it can be: Run is
\* called, the call that opens the stream returns, and stream.Recv() returns
\* (a stream kept open and silent for ever is left out). Cancelling the context
\* is the caller's choice and is not forced.
InitFiniteRetry == Init /\ ~sinker.infiniteRetry

NextNoMessage ==
    \/ Run
    \/ StreamOpens
    \/ StreamOpenFails
    \/ RecvError
    \/ CancelContext

SpecNoMessage ==
    /\ InitFiniteRetry
    /\ [][NextNoMessage]_vars
    /\ WF_vars(Run)
    /\ WF_vars(StreamOpens \/ StreamOpenFails)
    /\ WF_vars(RecvError)

\* SpecRange: a sinker built with the options that bear on the range requested
\* (a block range, a buffer, final blocks only), run against a server that
\* opens every stream asked for.
BlockRanges ==
    {NilRange}
        \cup {NewOpenRange(startBlock) : startBlock \in 0..1}
        \cup {NewRangeExcludingEnd(startBlock, endBlock) :
                startBlock \in 0..1, endBlock \in 2..MaxHeight}

RangeOptions ==
    {[name |-> "WithBlockRange", bufferSize |-> 0, blockRange |-> blockRange] :
        blockRange \in BlockRanges}
        \cup {opt \in Options : opt.name # "WithInfiniteRetry"}

InitRange ==
    /\ \E opts \in UNION {[1..n -> RangeOptions] : n \in 0..MaxOptions} :
        LET built == applyOptions([sinker |-> New, buffer |-> nilBuffer], opts)
        IN  /\ sinker = built.sinker
            /\ buffer = built.buffer
    /\ call = NoCall
    /\ checker = NoChecker
    /\ eval = NoEval
    /\ order = NoOrder
    /\ stats = NoStats
    /\ stream = NoStream
    /\ user = NoUser

NextRange ==
    \/ Run
    \/ StreamOpens
    \/ RecvError
    \/ RecvBlockScopedData
    \/ RecvBlockUndoSignal

SpecRange == InitRange /\ [][NextRange]_vars

\* SpecLiveness: calls of IsLive on one DeltaLivenessChecker while time passes.
InitLiveness ==
    /\ buffer = nilBuffer
    /\ call = NoCall
    /\ \E delta \in -1..MaxDelta, now \in 0..MaxTime :
        checker = [NoChecker EXCEPT !.t = NewDeltaLivenessChecker(delta), !.now = now]
    /\ eval = NoEval
    /\ order = NoOrder
    /\ sinker = NoSinker
    /\ stats = NoStats
    /\ stream = NoStream
    /\ user = NoUser

CallIsLive ==
    /\ checker.calls < MaxCalls
    /\ \E clock \in Clocks :
        \E r \in {IsLive(checker.t, clock, checker.now)} :
            checker' = [checker EXCEPT
                !.t = r.t,
                !.calls = checker.calls + 1,
                !.nowCalls = IF r.nowCalled THEN checker.nowCalls + 1 ELSE checker.nowCalls,
                !.returnedTrue = checker.returnedTrue \/ r.result,
                !.clock = clock,
                !.result = r.result]
    /\ UNCHANGED <<buffer, call, eval, order, sinker, stats, stream, user>>

TimePasses ==
    /\ checker.now < MaxTime
    /\ checker' = [checker EXCEPT !.now = checker.now + 1]
    /\ UNCHANGED <<buffer, call, eval, order, sinker, stats, stream, user>>

NextLiveness ==
    \/ CallIsLive
    \/ TimePasses

SpecLiveness == InitLiveness /\ [][NextLiveness]_vars

\* SpecCursor: two cursors are built from opaque values that decode, then
\* compared.
InitCursor ==
    /\ buffer = nilBuffer
    /\ call = NoCall
    /\ checker = NoChecker
    /\ \E a, b \in {BlankOpaque} \cup {ToOpaque(ref) : ref \in BlockRefs} :
        eval = [op |-> "IsEqualTo", step |-> "new", a |-> a, b |-> b,
                c |-> blankCursor, other |-> blankCursor, equal |-> FALSE]
    /\ order = NoOrder
    /\ sinker = NoSinker
    /\ stats = NoStats
    /\ stream = NoStream
    /\ user = NoUser

BuildCursors ==
    /\ eval.step = "new"
    /\ eval' = [eval EXCEPT !.step = "built",
                            !.c = NewCursor(eval.a).cursor,
                            !.other = NewCursor(eval.b).cursor]
    /\ UNCHANGED <<buffer, call, checker, order, sinker, stats, stream, user>>

CompareCursors ==
    /\ eval.step = "built"
    /\ eval' = [eval EXCEPT !.step = "compared",
                            !.equal = IsEqualTo(eval.c, eval.other)]
    /\ UNCHANGED <<buffer, call, checker, order, sinker, stats, stream, user>>

NextCursor ==
    \/ BuildCursors
    \/ CompareCursors

SpecCursor == InitCursor /\ [][NextCursor]_vars

\* SpecReadBlockRange: ReadBlockRange is called on a module's start block and
\* a block range argument.
InitReadBlockRange ==
    /\ buffer = nilBuffer
    /\ call = NoCall
    /\ checker = NoChecker
    /\ \E InitialBlock \in 0..MaxHeight, input \in Inputs :
        eval = [op |-> "ReadBlockRange", step |-> "new",
                InitialBlock |-> InitialBlock, input |-> input,
                range |-> NilRange, err |-> "nil"]
    /\ order = NoOrder
    /\ sinker = NoSinker
    /\ stats = NoStats
    /\ stream = NoStream
    /\ user = NoUser

CallReadBlockRange ==
    /\ eval.step = "new"
    /\ \E r \in {ReadBlockRange(eval.InitialBlock, eval.input)} :
        eval' = [eval EXCEPT !.step = "returned", !.range = r.range, !.err = r.err]
    /\ UNCHANGED <<buffer, call, checker, order, sinker, stats, stream, user>>

NextReadBlockRange == CallReadBlockRange

SpecReadBlockRange == InitReadBlockRange /\ [][NextReadBlockRange]_vars

\* SpecStats: the dispatch loop records the block of each message while the
\* ticker goroutine started by Stats.Start logs the stats. Neither takes a
\* lock: the two words of lastBlock are stored and loaded one at a time, in
\* any interleaving.
InitStats ==
    /\ buffer = nilBuffer
    /\ call = NoCall
    /\ checker = NoChecker
    /\ eval = NoEval
    /\ order = NoOrder
    /\ sinker = NoSinker
    /\ stats = NoStats
    /\ stream = NoStream
    /\ user = NoUser

\* RecordBlock(block) stores the first word of s.lastBlock.
RecordBlockStoresTab ==
    /\ stats.loop = "idle"
    /\ \E block \in BlockRefs :
        stats' = [stats EXCEPT !.loop = "storing",
                               !.storing = BasicBlockRef(block),
                               !.lastBlock.tab = "BasicBlockRef"]
    /\ UNCHANGED <<buffer, call, checker, eval, order, sinker, stream, user>>

\* RecordBlock stores the second word and returns.
RecordBlockStoresData ==
    /\ stats.loop = "storing"
    /\ stats' = [stats EXCEPT !.loop = "idle",
                              !.lastBlock.data = stats.storing.data]
    /\ UNCHANGED <<buffer, call, checker, eval, order, sinker, stream, user>>

\* The ticker fires: LogNow loads the first word of s.lastBlock.
LogNowLoadsTab ==
    /\ stats.ticker = "idle"
    /\ stats' = [stats EXCEPT !.ticker = "loading",
                              !.loadedTab = stats.lastBlock.tab]
    /\ UNCHANGED <<buffer, call, checker, eval, order, sinker, stream, user>>

\* LogNow loads the second word and logs the value.
LogNowLoadsData ==
    /\ stats.ticker = "loading"
    /\ stats' = [stats EXCEPT !.ticker = "idle",
                              !.loadedTab = "",
                              !.logged = [tab |-> stats.loadedTab,
                                          data |-> stats.lastBlock.data]]
    /\ UNCHANGED <<buffer, call, checker, eval, order, sinker, stream, user>>

NextStats ==
    \/ RecordBlockStoresTab
    \/ RecordBlockStoresData
    \/ LogNowLoadsTab
    \/ LogNowLoadsData

SpecStats == InitStats /\ [][NextStats]_vars

\* ------------------------------------------------------------------------
\* The test driver of TestBlockBuffer: messages played one after the other on
\* a buffer, giving what each call returned.
\* ------------------------------------------------------------------------

msgBlockScopedData(num, id, final) ==
    [op |-> "data", blockData |-> BlockScopedData(num, id, final, BlankOpaque),
     lastValidBlock |-> NilRef]

msgBlockUndoSignal(num, id) ==
    [op |-> "undo", blockData |-> NilBlock, lastValidBlock |-> NewBlockRef(id, num)]

RECURSIVE Replay(_, _)
Replay(b, messages) ==
    IF messages = <<>>
    THEN <<>>
    ELSE LET msg == Head(messages)
         IN  IF msg.op = "data"
             THEN LET r == HandleBlockScopedData(b, msg.blockData)
                  IN  <<[finalBlocks |-> r.finalBlocks, err |-> r.err]>>
                          \o Replay(r.buffer, Tail(messages))
             ELSE LET r == HandleBlockUndoSignal(b, msg.lastValidBlock)
                  IN  <<[finalBlocks |-> <<>>, err |-> r.err]>>
                          \o Replay(r.buffer, Tail(messages))

Returned(blocks) == [finalBlocks |-> blocks, err |-> ErrNone]

\* ------------------------------------------------------------------------
\* Claims on the Sinker's Run
\* ------------------------------------------------------------------------

\* C1: within one Run, reconnects included, every BlockScopedData passed to
\* handleBlockScopedData is strictly higher than the ones passed before it: no
\* block is delivered twice. Stated here for the Runs that received no undo
\* signal: no block at or below one the handler has accepted is passed again.
C1_NoBlockPassedTwice == ~user.handledAgain

\* C10: with a block buffer, handleBlockUndoSignal is never called, and an
\* error of the buffer on an undo signal ends the Run with that error, not
\* retried; without a buffer, every BlockUndoSignal received (whose
\* last_valid_cursor decodes) is passed to handleBlockUndoSignal with the
\* cursor decoded from its last_valid_cursor.
C10_UndoSignalDispatch ==
    LET last == user.last
        decoded == NewCursor(last.cursor)
    IN  /\ sinker.hasBuffer => ~user.undoHandlerCalled
        /\ (last.message = "undo" /\ sinker.hasBuffer /\ last.bufferErr # ErrNone) =>
                /\ sinker.pc = "terminated"
                /\ sinker.err = Errorf("buffer undo block", NewError(last.bufferErr))
                /\ ~sinker.err.retryable
                /\ sinker.shutdownErr = sinker.err
        /\ (last.message = "undo" /\ ~sinker.hasBuffer /\ ~decoded.err) =>
                /\ last.handlerCalled
                /\ last.handlerBlock = last.lastValidBlock
                /\ last.handlerCursor = decoded.cursor
                /\ ~IsBlank(last.handlerCursor)

\* C10 witness: a Run with a buffer holding a block has received an undo
\* signal the buffer refused, and has terminated.
C10_Witness ==
    /\ sinker.hasBuffer
    /\ user.last.message = "undo"
    /\ user.last.bufferErr = ErrUndoPastEmitted
    /\ buffer.dataEmptyAt >= 1
    /\ sinker.pc = "terminated"

\* C11: when handleBlockScopedData returns a retryable error for a block B,
\* the sinker reconnects and B is delivered to the handler again before any
\* block of greater height, with and without a buffer. The server resumes right
\* after the start cursor of the request, so B can only be delivered again when
\* the cursor the reconnect starts from is below B.
C11_FailedBlockDeliveredAgain ==
    (/\ sinker.pc = "connecting"
     /\ user.last.message = "data"
     /\ user.last.handlerErr.retryable) =>
        \/ IsBlank(sinker.activeCursor)
        \/ sinker.activeCursor.block.num < user.last.handlerBlock.num

\* C12: the cursor passed to handleBlockScopedData with a block is the one the
\* block's own message carries, it points at that block, so that a stream
\* opened from it resumes right after the block, and with a buffer the block is
\* never higher than the active cursor's block.
C12_HandlerCursorIsOwn ==
    LET last == user.last
    IN  (last.message = "data" /\ last.handlerCalled) =>
            /\ ~NewCursor(last.cursor).err
            /\ last.handlerCursor = NewCursor(last.cursor).cursor
            /\ ~IsBlank(last.handlerCursor)
            /\ last.handlerCursor.block = last.handlerBlock
            /\ ServerOpen([NewRequest(sinker, buffer) EXCEPT
                            !.StartCursor = String(last.handlerCursor)]).head
                    = last.handlerBlock.num
            /\ sinker.hasBuffer =>
                    /\ ~IsBlank(sinker.activeCursor)
                    /\ last.handlerBlock.num <= sinker.activeCursor.block.num

\* C12 witness: with a buffer, the handler was passed a block lower than the
\* block of the active cursor, which is still held in the buffer.
C12_Witness ==
    /\ sinker.hasBuffer
    /\ user.last.message = "data"
    /\ user.last.handlerCalled
    /\ buffer.dataEmptyAt >= 1
    /\ user.last.handlerBlock.num < sinker.activeCursor.block.num

\* A step of the Run that dispatches a BlockScopedData or a BlockUndoSignal:
\* the only steps taken while receiving that move the head of the stream.
DispatchStep == sinker.pc = "receiving" /\ stream'.head # stream.head

RequestReturns ==
    /\ sinker.pc \in {"connecting", "receiving"}
    /\ sinker'.pc \in {"connecting", "terminated"}
    /\ stream'.ctxDone = stream.ctxDone

\* Whether the back-off still grants a retry by its count in a step in which
\* doRequest returns: retry is infinite, or the request received a message, or
\* fewer than MaxRetries retries were made.
RetriesRemain ==
    sinker.infiniteRetry \/ sinker'.receivedMessage \/ sinker.numTries < MaxRetries

\* C14: an error during Receiving that is a context cancellation or carries a
\* canceled status of the transport, wrapped as retryable or not, terminates
\* the Run with that error: the back-off is not asked, and no connect attempt
\* follows.
C14_CancellationTerminates ==
    [][/\ (/\ RequestReturns
           /\ sinker.pc = "receiving"
           /\ sinker'.requestErr.kind \in {"context.Canceled", "grpc.Canceled"}) =>
                /\ sinker'.pc = "terminated"
                /\ sinker'.err = sinker'.requestErr
                /\ sinker'.numTries = IF sinker'.receivedMessage THEN 0 ELSE sinker.numTries
       /\ sinker.pc = "terminated" => sinker'.pc = "terminated"]_vars

\* C14 witness: the Run has terminated, its context not canceled, on a
\* canceled status that stream.Recv returned and doRequest wrapped as
\* retryable, with retries left.
C14_Witness ==
    /\ sinker.pc = "terminated"
    /\ ~stream.ctxDone
    /\ sinker.requestErr = retryable(Errorf("receive stream next message",
                                            NewError("grpc.Canceled")))
    /\ sinker.err = sinker.requestErr
    /\ sinker.numTries < MaxRetries

\* C15: a canceled status received from the transport while receiving is
\* treated as retryable: with the context not canceled and retries left, the
\* Run backs off and connects again instead of terminating.
C15_CanceledStatusRetried ==
    [][(/\ RequestReturns
        /\ sinker.pc = "receiving"
        /\ ~stream.ctxDone
        /\ RetriesRemain
        /\ sinker'.requestErr.kind = "grpc.Canceled") =>
            \/ sinker'.pc = "connecting"
            \/ sinker'.err = ErrBackOffExpired]_vars

\* C16: every transient failure of the transport (stream.Recv failing on the
\* network, or the stream failing to open) is wrapped as retryable and, with
\* the context not canceled and retries left, leads to the back-off and a new
\* connect attempt, or to the back-off expiring, never to a termination with
\* the failure itself.
C16_TransportFailureRetried ==
    [][(/\ RequestReturns
        /\ ~stream.ctxDone
        /\ RetriesRemain
        /\ sinker'.requestErr.kind = "grpc.Unavailable") =>
            /\ sinker'.requestErr.retryable
            /\ \/ sinker'.pc = "connecting"
               \/ sinker'.err = ErrBackOffExpired]_vars

\* C17: a clean end of the stream (io.EOF) during Receiving terminates the Run
\* with success, whatever was received on the stream and whatever retries were
\* made before; no connect attempt follows and no retry is counted.
C17_EOFTerminatesWithSuccess ==
    [][/\ (RequestReturns /\ sinker'.requestErr.kind = "io.EOF") =>
            /\ sinker.pc = "receiving"
            /\ sinker'.pc = "terminated"
            /\ sinker'.err = NilError
            /\ sinker'.shutdownErr = NilError
            /\ sinker'.numTries <= sinker.numTries
            /\ sinker'.activeCursor = sinker.activeCursor
       /\ (sinker.pc = "terminated" /\ sinker.requestErr.kind = "io.EOF") =>
            sinker' = sinker]_vars

\* C17 witness: the Run has terminated with success on the end of a stream on
\* which no message was received, opened after a failed attempt.
C17_Witness ==
    /\ sinker.pc = "terminated"
    /\ sinker.requestErr = NewError("io.EOF")
    /\ sinker.err = NilError
    /\ ~sinker.receivedMessage
    /\ sinker.numTries >= 1
    /\ ~stream.ctxDone

\* C18: once a message of any kind was received on a stream the back-off is
\* reset, so that the retryable failure that follows is the first of a fresh
\* sequence; the retries counted towards BackoffExpired are the consecutive
\* failed attempts on which no message was received: each such attempt adds
\* one, nothing else does, and the back-off expires by count only at
\* MaxRetries of them.
C18_BackOffResetOnMessage ==
    [][/\ (RequestReturns /\ sinker'.receivedMessage) =>
            /\ sinker'.numTries <= 1
            /\ sinker'.pc = "connecting" =>
                    sinker'.numTries = IF sinker.infiniteRetry THEN 0 ELSE 1
            /\ (sinker'.requestErr.retryable /\ ~isCanceled(sinker'.requestErr)) =>
                    sinker'.pc = "connecting"
       /\ (RequestReturns /\ ~sinker'.receivedMessage /\ sinker'.pc = "connecting") =>
            sinker'.numTries = IF sinker.infiniteRetry THEN 0 ELSE sinker.numTries + 1
       /\ ~RequestReturns => sinker'.numTries = sinker.numTries \/ sinker.pc = "new"]_vars

\* C18 witness: the Run had retried before (a block the handler had accepted
\* was passed to it again), the stream then delivered a message and failed
\* with a retryable error: the Run connects again with one retry counted.
C18_Witness ==
    /\ sinker.pc = "connecting"
    /\ sinker.receivedMessage
    /\ sinker.requestErr.retryable
    /\ sinker.numTries = 1
    /\ user.handledAgain

\* C19: without infinite retry, a retryable failure that occurs when MaxRetries
\* retries were made with no message in between terminates the Run with
\* BackoffExpired, not with the failure, and no more than MaxRetries retries are
\* ever counted.
C19_BackOffExpires ==
    [][/\ sinker.numTries <= MaxRetries
       /\ sinker'.numTries <= MaxRetries
       /\ (/\ RequestReturns
           /\ ~sinker.infiniteRetry
           /\ ~sinker'.receivedMessage
           /\ sinker.numTries = MaxRetries
           /\ sinker'.requestErr.retryable
           /\ sinker'.requestErr.kind \notin {"context.Canceled", "grpc.Canceled"}) =>
                /\ sinker'.pc = "terminated"
                /\ sinker'.err = ErrBackOffExpired
                /\ sinker'.err # sinker'.requestErr
                /\ sinker'.shutdownErr = IF stream.ctxDone THEN NilError
                                         ELSE ErrBackOffExpired]_vars

\* C19 witness: the Run has terminated with BackoffExpired, its context not
\* canceled, after MaxRetries retries.
C19_Witness ==
    /\ sinker.pc = "terminated"
    /\ ~sinker.infiniteRetry
    /\ ~stream.ctxDone
    /\ sinker.numTries = MaxRetries
    /\ sinker.err = ErrBackOffExpired
    /\ sinker.shutdownErr = ErrBackOffExpired
    /\ sinker.requestErr.retryable

\* C20: with infinite retry and the context not canceled, the Run never
\* terminates with BackoffExpired.
C20_InfiniteRetryNeverExpires ==
    (sinker.infiniteRetry /\ ~stream.ctxDone) => sinker.err # ErrBackOffExpired

\* The ways a Run ends: by the cancellation of its context, on the end of the
\* stream, with BackoffExpired, or with a fatal error, which is the error the
\* last doRequest returned or, before any request, an error of run's own
\* checks and set-up.
EndsByCancellation == stream.ctxDone /\ sinker.shutdownErr = NilError

EndsByEOF ==
    /\ sinker.requestErr = NewError("io.EOF")
    /\ sinker.err = NilError
    /\ sinker.shutdownErr = NilError

EndsByBackOffExpired ==
    /\ sinker.err = ErrBackOffExpired
    /\ sinker.requestErr.retryable
    /\ ~stream.ctxDone => sinker.shutdownErr = ErrBackOffExpired

EndsByFatalError ==
    /\ sinker.err \notin {NilError, ErrBackOffExpired}
    /\ \/ sinker.err = sinker.requestErr
       \/ sinker.requestErr = NilError /\ sinker.err.kind \in {"config", "client"}
    /\ ~stream.ctxDone => sinker.shutdownErr = sinker.err
    /\ sinker.err.retryable => sinker.err.kind = "grpc.Canceled"

RequestedStop == stream.stop

\* C23: the stream range requested from the server is [start, E + N) when a
\* buffer of capacity N is configured and the configured range is bounded with
\* end E; in every other case (no buffer, open range, or no range) the
\* configured range is used unchanged: its end is the stop block of the
\* request (none when the range has no end or there is no range) and its start
\* is where a stream opened without a cursor begins.
C23_RequestedRange ==
    sinker.pc = "receiving" =>
        LET configured == sinker.blockRange
            N == Cardinality(DOMAIN buffer.data)
            extended == sinker.hasBuffer /\ ~configured.isNil /\ configured.bounded
            req == NewRequest(sinker, buffer)
        IN  /\ RequestedStop = IF extended THEN configured.end + N
                                ELSE IF ~configured.isNil /\ configured.bounded
                                     THEN configured.end
                                     ELSE MaxUint64
            /\ req.StopBlockNum = RequestedStop
            /\ req.StartBlockNum = IF configured.isNil THEN 0 ELSE configured.start

C23_Witness ==
    /\ sinker.pc = "receiving"
    /\ sinker.hasBuffer
    /\ Cardinality(DOMAIN buffer.data) = MaxBufferSize
    /\ ~sinker.blockRange.isNil
    /\ sinker.blockRange.bounded
    /\ stream.stop = sinker.blockRange.end + MaxBufferSize

\* C24: with a bounded block range [S, E) configured, handleBlockScopedData
\* is never invoked for a block with height >= E, including when a buffer of
\* capacity N extends the requested stream end to E + N and the extra blocks
\* arrive already final.
C24_NoBlockAtOrAboveEnd ==
    (~sinker.blockRange.isNil /\ sinker.blockRange.bounded) =>
        user.lastPassed < sinker.blockRange.end

\* C25: whenever the final-blocks-only option is among the options applied to
\* a sinker, the resulting sinker has no block buffer, whatever the order in
\* which final-blocks-only and buffer_size = N (N > 0) are applied. Only
\* WithFinalBlocksOnly sets finalBlocksOnly and no option clears it.
C25_FinalBlocksOnlyHasNoBuffer ==
    sinker.finalBlocksOnly => ~sinker.hasBuffer

\* The step on which doRequest receives a message that is not dispatched: the
\* stream stays open and the server's position is the same.
ProgressStep ==
    /\ sinker.pc = "receiving"
    /\ sinker'.pc = "receiving"
    /\ stream' = stream
    /\ sinker' # sinker

IsLiveReturns == checker'.calls = checker.calls + 1

\* C27: once IsLive has returned true for any clock, every later IsLive call
\* on the same checker returns true whatever its argument (including a nil
\* clock or an old timestamp) and does not call the now-provider again.
C27_LiveStaysLive ==
    [][(IsLiveReturns /\ checker.returnedTrue) =>
        /\ checker'.result
        /\ checker'.nowCalls = checker.nowCalls]_vars

C27_Witness ==
    /\ checker.returnedTrue
    /\ checker.calls = MaxCalls
    /\ checker.nowCalls = 1
    /\ checker.result
    /\ checker.clock.hasTimestamp
    /\ checker.now - checker.clock.timestamp > checker.t.delta

\* C28: while the delta liveness checker has never returned true,
\* IsLive(clock) returns true iff clock and its timestamp are present and
\* now() - clock.timestamp <= delta, the boundary counting as live; false for
\* a nil clock or a missing timestamp.
C28_LiveWithinDelta ==
    [][(IsLiveReturns /\ ~checker.returnedTrue) =>
        (checker'.result <=>
            /\ ~checker'.clock.isNil
            /\ checker'.clock.hasTimestamp
            /\ checker.now - checker'.clock.timestamp <= checker.t.delta)]_vars

C28_Witness ==
    /\ checker.calls = 2
    /\ checker.nowCalls = 2
    /\ checker.result
    /\ checker.t.delta > 0
    /\ checker.now - checker.clock.timestamp = checker.t.delta

\* C29: two bound cursors built from the same opaque value compare equal with
\* IsEqualTo and two bound cursors with different content compare unequal; two
\* blank cursors compare equal; a blank and a bound cursor compare unequal.
C29_CursorEquality ==
    (eval.op = "IsEqualTo" /\ eval.step = "compared") =>
        LET boundC == eval.a # BlankOpaque
            boundOther == eval.b # BlankOpaque
        IN  /\ (boundC /\ boundOther /\ eval.a = eval.b) => eval.equal
            /\ (boundC /\ boundOther /\ eval.a # eval.b) => ~eval.equal
            /\ (~boundC /\ ~boundOther) => eval.equal
            /\ (boundC # boundOther) => ~eval.equal

\* C30: for every module start block S, ReadBlockRange returns an error
\* whenever the resolved start >= resolved exclusive stop, in every input
\* form: a single stop value N or +N as well as A:B. A call that returns no
\* error returns the range it resolved, so none may have its start at or
\* above its end.
C30_StartBelowStop ==
    (/\ eval.op = "ReadBlockRange"
     /\ eval.step = "returned"
     /\ eval.err = "nil"
     /\ eval.range.bounded) =>
        eval.range.start < eval.range.end

\* ReadBlockRange has returned from the call under observation.
ReadBlockRangeReturned == eval.op = "ReadBlockRange" /\ eval.step = "returned"

Numerals == {<<d>> : d \in Digits} \cup {<<d, e>> : d \in Digits \ {"0"}, e \in Digits}

Decimal(numeral) ==
    IF Len(numeral) = 1 THEN DigitValue(numeral[1])
    ELSE 10 * DigitValue(numeral[1]) + DigitValue(numeral[2])

\* The call returned the range [start, end) without error, for a range the
\* table gives that holds at least one block.
GivesRange(start, end) ==
    start < end => (eval.err = "nil" /\ eval.range = NewRangeExcludingEnd(start, end))

GivesOpenRange(start) == eval.err = "nil" /\ eval.range = NewOpenRange(start)

C33_FullRange ==
    (/\ ReadBlockRangeReturned
     /\ eval.input \in {<<>>, <<"-", "1">>, <<":">>}) =>
        /\ eval.err = "nil"
        /\ ~eval.range.isNil
        /\ ~eval.range.bounded
        /\ eval.range.start = eval.InitialBlock

C33_Witness ==
    /\ ReadBlockRangeReturned
    /\ eval.input = <<>>
    /\ eval.InitialBlock = MaxHeight
    /\ eval.err = "nil"
    /\ eval.range = NewOpenRange(MaxHeight)

\* C38: on every connect attempt the request's start cursor is the wire form
\* of the sinker's active cursor, which is the cursor given to Run until a
\* message changes it and afterwards the cursor of the most recently received
\* BlockScopedData or BlockUndoSignal, so that a reconnect resumes after the
\* last message received rather than from the initial cursor. The request is
\* built from the active cursor on each attempt; a BlockScopedData or
\* BlockUndoSignal after which the Run goes on, receiving or reconnecting,
\* must leave the active cursor at the block of that message.
C38_ActiveCursorFollowsMessages ==
    [][(DispatchStep /\ sinker'.pc \in {"receiving", "connecting"}) =>
        /\ ~IsBlank(sinker'.activeCursor)
        /\ sinker'.activeCursor.block.num = stream'.head
        /\ NewRequest(sinker', buffer').StartCursor = String(sinker'.activeCursor)]_vars

\* C40: the stats companion task and the primary task never access
\* Stats.lastBlock concurrently without synchronization: no interleaving lets
\* a LogNow read on the ticker goroutine overlap a RecordBlock write made by
\* the connect/dispatch loop.
C40_NoConcurrentAccess ==
    ~(stats.loop = "storing" /\ stats.ticker = "loading")

\* C22: when handleBlockScopedData is not set, or when finalBlocksOnly is false
\* and handleBlockUndoSignal is not set, the Run fails with a configuration
\* error before any connection is opened and before any handler is called;
\* with finalBlocksOnly true a missing undo handler is accepted: the Run gets
\* past its checks.
C22_HandlersChecked ==
    LET h == sinker.handlers
        missing == \/ ~h.HandleBlockScopedData
                   \/ ~sinker.finalBlocksOnly /\ ~h.HandleBlockUndoSignal
    IN  sinker.pc # "new" =>
            /\ missing =>
                    /\ sinker.pc = "terminated"
                    /\ sinker.err.kind = "config"
                    /\ sinker.shutdownErr = sinker.err
                    /\ sinker.requestErr = NilError
                    /\ stream = NoStream
                    /\ user = NoUser
            /\ ~missing => sinker.err.kind # "config"

\* C22 witness: a Run that requests non-final blocks was called with the data
\* handler but no undo handler, and has failed.
C22_Witness ==
    /\ sinker.pc = "terminated"
    /\ ~sinker.finalBlocksOnly
    /\ sinker.handlers.HandleBlockScopedData
    /\ ~sinker.handlers.HandleBlockUndoSignal
    /\ sinker.err.msg = "requesting non-final block and block undo signal handler is not set"

\* ------------------------------------------------------------------------
\* Claims on the block buffer
\* ------------------------------------------------------------------------

HighestHeld(b) ==
    CHOOSE h \in {x.Number : x \in Range(Held(b))} :
        \A x \in Range(Held(b)) : x.Number <= h

\* C2 (as amended): for any sequence of HandleBlockScopedData calls, interleaved
\* with any HandleBlockUndoSignal calls, in which every call returns without
\* error and every block passed is higher than every block returned before it,
\* the blocks returned, concatenated in call order, have strictly increasing
\* heights.
C2_ReturnedIncreasing ==
    (order.allOk /\ order.receivedAboveReturned) => order.returnedIncreasing

\* C2 witness: such a sequence whose last call returned two blocks at once,
\* the second at the highest height.
C2_Witness ==
    /\ order.allOk /\ order.receivedAboveReturned
    /\ call.op = "data" /\ call.returned >= 2
    /\ order.lastReturned = MaxHeight

\* C2 (as stated): whenever every call so far returned without error, the
\* blocks returned so far have strictly increasing heights.
C2_Original == order.allOk => order.returnedIncreasing

\* C3: HandleBlockUndoSignal with last valid block L fails, with the
\* undo-past-emitted error, exactly when lastEmittedBlock is set, its height
\* is >= L's and it differs from L in height or id; it succeeds when
\* lastEmittedBlock equals L; and on the error the buffer is left as it was.
C3_UndoPastEmittedExactly ==
    \A L \in BlockRefs :
        LET r == HandleBlockUndoSignal(buffer, L)
            last == buffer.lastEmittedBlock
            past == /\ ~last.isNil
                    /\ last.num >= L.num
                    /\ (last.num # L.num \/ last.id # L.id)
        IN  /\ (r.err # ErrNone) <=> past
            /\ r.err \in {ErrNone, ErrUndoPastEmitted}
            /\ r.err = ErrUndoPastEmitted => r.named = <<L, last>>
            /\ last = L => r.err = ErrNone
            /\ r.err # ErrNone =>
                /\ Held(r.buffer) = Held(buffer)
                /\ r.buffer.dataEmptyAt = buffer.dataEmptyAt
                /\ r.buffer.lastEmittedBlock = buffer.lastEmittedBlock

\* C3 witness: an undo signal has just been refused on a buffer holding blocks.
C3_Witness ==
    /\ call.op = "undo" /\ call.err = ErrUndoPastEmitted
    /\ buffer.dataEmptyAt >= 1

\* C4: a block dropped by a successful HandleBlockUndoSignal (held with a height
\* above the last valid one) is never returned by a later HandleBlockScopedData.
\* Shown by the two steps that make it so in every reachable buffer: a
\* successful undo leaves held exactly the blocks at or below the last valid
\* height, and a successful HandleBlockScopedData returns, and leaves held,
\* only blocks that were held or the block passed. And the scenario: N = 2,
\* 1a, 2a, undo(1a), 2b, 3b, 4b returns nothing four times, then 1a, then 2b.
C4_DroppedNeverReturned ==
    /\ \A L \in BlockRefs :
        LET r == HandleBlockUndoSignal(buffer, L)
        IN  r.err = ErrNone =>
                Held(r.buffer) = SelectSeq(Held(buffer), LAMBDA x : x.Number <= L.num)
    /\ \A blockData \in Blocks :
        LET r == HandleBlockScopedData(buffer, blockData)
        IN  r.err = ErrNone =>
                (Range(r.finalBlocks) \cup Range(Held(r.buffer)))
                    \subseteq (Range(Held(buffer)) \cup {blockData})
    /\ Replay(newBlockDataBuffer(2),
              <<msgBlockScopedData(1, "a", 0), msgBlockScopedData(2, "a", 0),
                msgBlockUndoSignal(1, "a"),
                msgBlockScopedData(2, "b", 0), msgBlockScopedData(3, "b", 0),
                msgBlockScopedData(4, "b", 0)>>)
         = <<Returned(<<>>), Returned(<<>>), Returned(<<>>), Returned(<<>>),
             Returned(<<BlockScopedData(1, "a", 0, BlankOpaque)>>),
             Returned(<<BlockScopedData(2, "b", 0, BlankOpaque)>>)>>

\* C4 witness: a successful undo signal has just dropped a block and kept one.
C4_Witness ==
    /\ call.op = "undo" /\ call.err = ErrNone
    /\ call.dropped >= 1
    /\ buffer.dataEmptyAt >= 1

\* C5: after every call 0 <= dataEmptyAt <= N, and no call stores a block past
\* index N-1 (which would be an index-out-of-range panic).
C5_FillPointerWithinCapacity ==
    /\ buffer.dataEmptyAt \in 0..Capacity(buffer)
    /\ call.err # ErrIndexOutOfRange
    /\ \A blockData \in Blocks :
        LET r == HandleBlockScopedData(buffer, blockData)
        IN  /\ r.err # ErrIndexOutOfRange
            /\ r.buffer.dataEmptyAt \in 0..Capacity(buffer)
    /\ \A L \in BlockRefs :
        HandleBlockUndoSignal(buffer, L).buffer.dataEmptyAt \in 0..Capacity(buffer)

\* C5 witness: a call on a full buffer of the largest capacity returned the
\* oldest block and stored the received one, leaving the buffer full.
C5_Witness ==
    /\ Capacity(buffer) = MaxBufferSize
    /\ buffer.dataEmptyAt = Capacity(buffer)
    /\ call.op = "data" /\ call.err = ErrNone /\ call.returned = 1

\* C6: when HandleBlockScopedData(b) succeeds and b.height <= b.final height,
\* the returned list is every block held before the call, in order, followed
\* by b, and b is not stored (the buffer is left empty).
C6_FinalBlockPassesThrough ==
    \A blockData \in Blocks :
        LET r == HandleBlockScopedData(buffer, blockData)
        IN  (r.err = ErrNone /\ blockData.Number <= blockData.FinalBlockHeight) =>
                /\ r.finalBlocks = Held(buffer) \o <<blockData>>
                /\ blockData \notin Range(Held(r.buffer))
                /\ r.buffer.dataEmptyAt = 0

\* C6 witness: a call has just returned at least two blocks and left the
\* buffer empty: the received block was final and flushed what was held.
C6_Witness ==
    /\ call.op = "data" /\ call.err = ErrNone
    /\ call.returned >= 2
    /\ buffer.dataEmptyAt = 0

\* C7: after a successful HandleBlockScopedData(b) no block held has a height
\* <= b's final height: every such block was returned by that call.
C7_NoFinalBlockHeld ==
    \A blockData \in Blocks :
        LET r == HandleBlockScopedData(buffer, blockData)
        IN  r.err = ErrNone =>
                /\ \A x \in Range(Held(r.buffer)) : x.Number > blockData.FinalBlockHeight
                /\ \A x \in Range(Held(buffer)) :
                       x.Number <= blockData.FinalBlockHeight => x \in Range(r.finalBlocks)

\* C7 witness: a call has just returned at least two held blocks (they were at
\* or below the final height) and kept a block.
C7_Witness ==
    /\ call.op = "data" /\ call.err = ErrNone
    /\ call.returned >= 2
    /\ buffer.dataEmptyAt >= 1

\* C8: on a non-empty buffer whose highest held block has a height >= b's,
\* HandleBlockScopedData(b) returns the ordering error naming both blocks,
\* returns no block and leaves the buffer as it was; with a strictly greater
\* height (gaps allowed) it never returns that error.
C8_OrderingViolation ==
    \A blockData \in Blocks :
        LET r == HandleBlockScopedData(buffer, blockData)
        IN  buffer.dataEmptyAt > 0 =>
                /\ HighestHeld(buffer) >= blockData.Number =>
                    /\ r.err = ErrOrdering
                    /\ r.named[1] = blockToRef(blockData)
                    /\ \E x \in Range(Held(buffer)) :
                           /\ x.Number = HighestHeld(buffer)
                           /\ r.named[2] = blockToRef(x)
                    /\ r.finalBlocks = <<>>
                    /\ r.buffer = buffer
                /\ blockData.Number > HighestHeld(buffer) => r.err # ErrOrdering

\* C8 witness: a block has just been refused for its height, and a block two
\* heights above the highest held one (a gap) can be passed.
C8_Witness ==
    /\ call.op = "data" /\ call.err = ErrOrdering
    /\ buffer.dataEmptyAt > 0
    /\ HighestHeld(buffer) + 2 <= MaxHeight

\* C9: two consecutive HandleBlockUndoSignal calls with the same argument leave
\* the buffer (held blocks, dataEmptyAt, lastEmittedBlock) as a single call
\* does, and the second returns what the first returned.
C9_UndoIdempotent ==
    \A L \in BlockRefs :
        LET once == HandleBlockUndoSignal(buffer, L)
            twice == HandleBlockUndoSignal(once.buffer, L)
        IN  /\ twice.err = once.err
            /\ Held(twice.buffer) = Held(once.buffer)
            /\ twice.buffer.dataEmptyAt = once.buffer.dataEmptyAt
            /\ twice.buffer.lastEmittedBlock = once.buffer.lastEmittedBlock

\* C9 witness: an undo signal has just dropped a held block, on a buffer that
\* has already sent a block to the user.
C9_Witness ==
    /\ call.op = "undo" /\ call.err = ErrNone
    /\ call.dropped >= 1
    /\ ~buffer.lastEmittedBlock.isNil

\* C34: after any sequence of buffer operations, lastEmittedBlock is nil if no
\* block was ever returned by HandleBlockScopedData and otherwise is the
\* reference of the most recently returned block, including when that block
\* was the received block itself passed through because it was final.
C34_LastEmittedIsLastReturned ==
    IF order.lastReturned = 0
    THEN buffer.lastEmittedBlock.isNil
    ELSE /\ ~buffer.lastEmittedBlock.isNil
         /\ buffer.lastEmittedBlock.num = order.lastReturned

\* C35: a successful HandleBlockScopedData(b) returns, in buffer order,
\* exactly: all held blocks with height <= b's final height if there is any;
\* otherwise the single oldest held block if the buffer is at capacity;
\* otherwise no held block; followed by b itself only if b.height <= b's final
\* height. The remaining held blocks keep their order and b is appended last
\* when not final.
C35_EmissionExactly ==
    \A blockData \in Blocks :
        LET r == HandleBlockScopedData(buffer, blockData)
            held == Held(buffer)
            final == SelectSeq(held, LAMBDA x : x.Number <= blockData.FinalBlockHeight)
            fromBuffer == IF final # <<>> THEN final
                          ELSE IF Len(held) = Cardinality(DOMAIN buffer.data)
                               THEN <<held[1]>>
                               ELSE <<>>
            remaining == SubSeq(held, Len(fromBuffer) + 1, Len(held))
            isFinal == blockData.Number <= blockData.FinalBlockHeight
        IN  r.err = ErrNone =>
                /\ r.finalBlocks = fromBuffer \o (IF isFinal THEN <<blockData>> ELSE <<>>)
                /\ Held(r.buffer) = remaining \o (IF isFinal THEN <<>> ELSE <<blockData>>)

\* C35 witness: a call on a full buffer of capacity 1 returned the block held,
\* which was not final, and stored the received one.
C35_Witness ==
    /\ Capacity(buffer) = 1
    /\ buffer.dataEmptyAt = 1
    /\ call.op = "data" /\ call.err = ErrNone /\ call.returned = 1
    /\ ~buffer.lastEmittedBlock.isNil
    /\ buffer.lastEmittedBlock.num < buffer.data[0].Number

\* C36: after a successful HandleBlockUndoSignal with last valid block L, the
\* buffer holds exactly the blocks it held before whose height is <= L.height,
\* in the same order; if none has such a height the buffer is empty;
\* lastEmittedBlock is unchanged.
C36_UndoKeepsValidBlocks ==
    \A L \in BlockRefs :
        LET r == HandleBlockUndoSignal(buffer, L)
            valid == SelectSeq(Held(buffer), LAMBDA x : x.Number <= L.num)
        IN  r.err = ErrNone =>
                /\ Held(r.buffer) = valid
                /\ (valid = <<>>) => r.buffer.dataEmptyAt = 0
                /\ r.buffer.lastEmittedBlock = buffer.lastEmittedBlock

\* C36 witness: an undo signal has just emptied a buffer that held blocks, all
\* above the last valid height.
C36_Witness ==
    /\ call.op = "undo" /\ call.err = ErrNone
    /\ call.dropped = MaxBufferSize
    /\ buffer.dataEmptyAt = 0

\* C37: in every reachable buffer state, after any interleaving of
\* HandleBlockScopedData and HandleBlockUndoSignal calls, the blocks held
\* below dataEmptyAt are in strictly increasing height order.
C37_HeldStrictlyIncreasing ==
    \A i \in 0..(buffer.dataEmptyAt - 2) :
        buffer.data[i].Number < buffer.data[i + 1].Number

\* C37 witness: a full buffer of the largest capacity whose blocks are not at
\* consecutive heights, after a block was stored.
C37_Witness ==
    /\ Capacity(buffer) = MaxBufferSize
    /\ buffer.dataEmptyAt = MaxBufferSize
    /\ call.op = "data" /\ call.err = ErrNone /\ call.returned = 0
    /\ buffer.data[MaxBufferSize - 1].Number > buffer.data[0].Number + 1

\* C39: every block accepted by HandleBlockScopedData without error is at
\* every later point exactly one of: still held, returned in exactly one
\* emission list, or discarded by a successful undo with a lower last valid
\* height; no block is returned twice and none disappears otherwise. On each
\* call: the blocks held before a successful HandleBlockScopedData(b),
\* followed by b, are the blocks it returns followed by the blocks held after
\* it, each once; a successful HandleBlockUndoSignal keeps a prefix of the
\* blocks held and what it drops is above the last valid height; a call that
\* fails changes nothing.
C39_BlocksAccountedFor ==
    /\ \A blockData \in Blocks :
        LET r == HandleBlockScopedData(buffer, blockData)
        IN  IF r.err = ErrNone
            THEN Held(buffer) \o <<blockData>> = r.finalBlocks \o Held(r.buffer)
            ELSE r.finalBlocks = <<>> /\ Held(r.buffer) = Held(buffer)
    /\ \A L \in BlockRefs :
        LET r == HandleBlockUndoSignal(buffer, L)
            kept == Held(r.buffer)
        IN  IF r.err = ErrNone
            THEN /\ kept = SubSeq(Held(buffer), 1, Len(kept))
                 /\ \A i \in (Len(kept) + 1)..buffer.dataEmptyAt :
                        Held(buffer)[i].Number > L.num
            ELSE kept = Held(buffer)

\* C39 witness: a call has just returned a held block while another stays
\* held and the received block was stored.
C39_Witness ==
    /\ Capacity(buffer) = MaxBufferSize
    /\ call.op = "data" /\ call.err = ErrNone /\ call.returned = 1
    /\ buffer.dataEmptyAt = MaxBufferSize
    /\ ~buffer.lastEmittedBlock.isNil
    /\ buffer.lastEmittedBlock.num < buffer.data[0].Number
    /\ buffer.data[0].Number < buffer.data[1].Number

=============================================================================
